---------------------------- MODULE Spec2Model ----------------------------
(***************************************************************************)
(* A model of the CHIP-8 core of src/chip8.cpp / src/chip8.hpp (the second *)
(* revision in chip8.cpp, lines 315-663, which matches chip8.hpp).         *)
(*                                                                         *)
(* Representation notes.                                                   *)
(*  - memory and video are zero-initialised C arrays.  They are held as    *)
(*    functions whose domain is the set of cells that hold a non-zero      *)
(*    value; every other cell of the array holds 0 (Mem, Pixel read them). *)
(*  - a uint32_t pixel is held as the 32-bit pattern read as a two's       *)
(*    complement integer (TLC's integers are 32 bits wide): 0x00000000 is  *)
(*    0 and 0xFFFFFFFF is -1, and  v ^ 0xFFFFFFFF  is  -1 - v.             *)
(*  - Chip8::Cycle() is declared in chip8.hpp and defined nowhere; its     *)
(*    fetch and dispatch are modelled from spec.md section 4.2, with the   *)
(*    instruction word found at memory[pc] an input.                       *)
(*  - an access outside an array is undefined behaviour: it is recorded in *)
(*    fault and its outcome is a nondeterministic choice.                  *)
(***************************************************************************)
EXTENDS Integers, Naturals, Sequences, FiniteSets, TLC

\* ------------------------------------------------------------ constants
N_REG == 16
MEM_B == 4096
N_KEYS == 16
DISPLAY_WIDTH == 64
DISPLAY_HEIGHT == 32
START_ADDRESS == 512
FONTSET_SIZE == 80
FONSET_START_ADDRESS == 80
STACK_DEPTH == 16

\* 0xFFFFFFFF, as the two's complement reading of the 32-bit pattern.
ALL_ONES == -1

fontset ==
  << 240, 144, 144, 144, 240,
      32,  96,  32,  32, 112,
     240,  16, 240, 128, 240,
     240,  16, 240,  16, 240,
     144, 144, 240,  16,  16,
     240, 128, 240,  16, 240,
     240, 128, 240, 144, 240,
     240,  16,  32,  64,  64,
     240, 144, 240, 144, 240,
     240, 144, 240,  16, 240,
     240, 144, 240, 144, 144,
     224, 144, 224, 144, 224,
     240, 128, 128, 128, 240,
     224, 144, 144, 144, 224,
     240, 128, 240, 128, 240,
     240, 128, 240, 128, 128 >>

\* ------------------------------------------------------------ bounds
\* Handler executions explored from an initial state, per specification.
MaxStackSteps == 18
MaxAluSteps == 1
MaxDrawSteps == 2
MaxSkipSteps == 1
MaxFlagSteps == 2
MaxRunSteps == 2
MaxSteps == 3
\* Handler executions explored after the first undefined behaviour.
MaxFaultSteps == 2
\* LoadROM calls explored from construction.
MaxLoads == 2

\* ------------------------------------------------------------ integer widths
U8(v) == v % 256
U16(v) == v % 65536

RECURSIVE BitAnd(_, _), BitOr(_, _), BitXor(_, _)
BitAnd(a, b) ==
  IF a = 0 \/ b = 0 THEN 0
  ELSE (IF a % 2 = 1 /\ b % 2 = 1 THEN 1 ELSE 0) + 2 * BitAnd(a \div 2, b \div 2)
BitOr(a, b) ==
  IF a = 0 THEN b ELSE IF b = 0 THEN a
  ELSE (IF a % 2 = 1 \/ b % 2 = 1 THEN 1 ELSE 0) + 2 * BitOr(a \div 2, b \div 2)
BitXor(a, b) ==
  IF a = 0 THEN b ELSE IF b = 0 THEN a
  ELSE (IF a % 2 # b % 2 THEN 1 ELSE 0) + 2 * BitXor(a \div 2, b \div 2)

\* The halves of a 32-bit pattern, and the pattern of two halves.
Lo16(v) == v % 65536
Hi16(v) == (v \div 65536) % 65536
Pattern32(hi, lo) == (IF hi >= 32768 THEN hi - 65536 ELSE hi) * 65536 + lo

\* v ^ 0xFFFFFFFF on a 32-bit pattern.
XorAllOnes(v) == ALL_ONES - v

\* ------------------------------------------------------------ state
VARIABLES
  registers,   \* uint8_t registers[16]
  memory,      \* uint8_t memory[4096], non-zero bytes
  index,       \* uint16_t index
  pc,          \* uint16_t pc
  stack,       \* uint16_t stack[16]
  sp,          \* uint8_t sp
  delayTimer,  \* uint8_t delayTimer
  soundTimer,  \* uint8_t soundTimer
  keypad,      \* uint8_t keypad[16]
  video,       \* uint32_t video[64 * 32], non-zero pixels
  opcode,      \* uint16_t opcode
  randGen,     \* std::default_random_engine randGen, as the byte it yields next
  phase,       \* position inside Cycle(): "fetch" or "execute"
  fault,       \* undefined behaviour met so far (out-of-bounds accesses)
  steps,       \* operations (handlers, loads) executed so far
  faultSteps,  \* handlers executed since the first undefined behaviour
  fetchAddr,   \* history: the address the current instruction was fetched at
  calls,       \* history: return addresses of the outstanding calls
  inRange,     \* history: the number of outstanding calls never left 0..16
  returnTo,    \* history: the address after the 2nnn the last 00EE matched
  pre,         \* history: the state the last handler started from
  pre2,        \* history: the state the handler before it started from
  rom          \* history: the file the last LoadROM was given

vars == <<registers, memory, index, pc, stack, sp, delayTimer, soundTimer,
          keypad, video, opcode, randGen, phase, fault, steps, faultSteps,
          fetchAddr, calls, inRange, returnTo, pre, pre2, rom>>

\* An array all of whose cells hold 0.
NoCells == [j \in {} |-> 0]

Mem(a) == IF a \in DOMAIN memory THEN memory[a] ELSE 0
Pixel(v, i) == IF i \in DOMAIN v THEN v[i] ELSE 0

\* The arrays with cell i set to val, kept in the non-zero form.
SetCell(f, i, val) ==
  IF val = 0
    THEN [j \in DOMAIN f \ {i} |-> f[j]]
    ELSE [j \in DOMAIN f \cup {i} |-> IF j = i THEN val ELSE f[j]]

Snap ==
  [opcode |-> opcode, registers |-> registers, index |-> index, pc |-> pc,
   sp |-> sp, stack |-> stack, video |-> video, memory |-> memory,
   randGen |-> randGen]

\* ------------------------------------------------------------ construction
\* randByte(randGen): uniform over 0..255; these values are drawn.
RandBytes == {0, 15, 165, 255}

\* The font as the constructor's loop leaves it in memory[].
FontImage_offByOne ==
  [a \in FONSET_START_ADDRESS + 1..FONSET_START_ADDRESS + FONTSET_SIZE
     |-> fontset[a - FONSET_START_ADDRESS]]
FontImage ==
  [a \in FONSET_START_ADDRESS..FONSET_START_ADDRESS + FONTSET_SIZE - 1
     |-> fontset[a - FONSET_START_ADDRESS + 1]]

\* No LoadROM call yet.
NoRom == [called |-> FALSE, opened |-> FALSE, bytes |-> << >>]

\* Chip8::Chip8(): every member is value-initialised to 0, pc is set to
\* START_ADDRESS and the font is copied to FONSET_START_ADDRESS.  opcode has
\* no initialiser; Cycle() writes it before any handler reads it.  randGen is
\* seeded from the clock.
Chip8 ==
  /\ registers = [r \in 0..N_REG - 1 |-> 0]
  /\ memory = FontImage
  /\ index = 0
  /\ pc = START_ADDRESS
  /\ stack = [s \in 0..STACK_DEPTH - 1 |-> 0]
  /\ sp = 0
  /\ delayTimer = 0
  /\ soundTimer = 0
  /\ keypad = [k \in 0..N_KEYS - 1 |-> 0]
  /\ video = NoCells
  /\ opcode = 0
  /\ randGen \in RandBytes

History0 ==
  /\ phase = "fetch"
  /\ fault = {}
  /\ steps = 0
  /\ faultSteps = 0
  /\ fetchAddr = 0
  /\ calls = << >>
  /\ inRange = TRUE
  /\ returnTo = 0
  /\ pre = Snap
  /\ pre2 = Snap
  /\ rom = NoRom

\* ------------------------------------------------------------ LoadROM
\* A byte of the file read into char buffer[] (char is signed here), and the
\* char stored in a uint8_t of memory[].
ToChar(b) == IF b >= 128 THEN b - 256 ELSE b
StoredByte(c) == c % 256

\* The members chip8.hpp declares after memory[].
BeyondMemory ==
  [index |-> index, pc |-> pc, stack |-> stack, sp |-> sp,
   delayTimer |-> delayTimer, soundTimer |-> soundTimer, keypad |-> keypad,
   video |-> video]

\* A uint16_t with one of its bytes replaced (which = 0: the low byte).
WithByte16(w, which, b) ==
  IF which = 0 THEN (w \div 256) * 256 + b ELSE b * 256 + (w % 256)

\* memory[4096 + o] = b: the byte lands on the members declared after
\* memory[].  With every member at its natural alignment and the low byte
\* first, offsets 0..1 are index, 2..3 pc, 4..35 stack[0..15], 36 sp,
\* 37 delayTimer, 38 soundTimer, 39..54 keypad[0..15], 55 a padding byte and
\* 56 + 4j .. 59 + 4j video[j].
StoreBeyondMemory(m, o, b) ==
  LET j == (o - 56) \div 4
      n == (o - 56) % 4
      cell == Pixel(m.video, j)
      half == WithByte16(IF n < 2 THEN Lo16(cell) ELSE Hi16(cell), n % 2, b)
      newCell == IF n < 2 THEN Pattern32(Hi16(cell), half)
                 ELSE Pattern32(half, Lo16(cell)) IN
  CASE o \in 0..1 -> [m EXCEPT !.index = WithByte16(m.index, o, b)]
    [] o \in 2..3 -> [m EXCEPT !.pc = WithByte16(m.pc, o - 2, b)]
    [] o \in 4..35 ->
         [m EXCEPT !.stack[(o - 4) \div 2] =
                     WithByte16(m.stack[(o - 4) \div 2], o % 2, b)]
    [] o = 36 -> [m EXCEPT !.sp = b]
    [] o = 37 -> [m EXCEPT !.delayTimer = b]
    [] o = 38 -> [m EXCEPT !.soundTimer = b]
    [] o \in 39..54 -> [m EXCEPT !.keypad[o - 39] = b]
    [] o = 55 -> m
    [] o \in 56..56 + 4 * DISPLAY_WIDTH * DISPLAY_HEIGHT - 1 ->
         [m EXCEPT !.video = SetCell(m.video, j, newCell)]
    [] OTHER -> m

\* The iterations of the copy loop that write past memory[], from iteration
\* i on.
RECURSIVE CopyBeyond(_, _, _, _)
CopyBeyond(m, buffer, i, size) ==
  IF i >= size THEN m
  ELSE CopyBeyond(StoreBeyondMemory(m, START_ADDRESS + i - MEM_B,
                                    StoredByte(buffer[i + 1])),
                  buffer, i + 1, size)

\* The number of iterations of  for (long i = 0; i < size; i++).
CopyCount_lessOne(size) == IF size > 0 THEN size - 1 ELSE 0
CopyCount(size) == size

\* LoadROM(filename).  file is what the name leads to: whether it opens,
\* and its bytes.  The loop has no bound but the file's size: iterations
\* with START_ADDRESS + i >= MEM_B write outside memory[], either on the
\* members that follow it, as laid out above, or (another layout) on nothing
\* the machine reads.
LoadROM(file) ==
  LET size == Len(file.bytes)
      buffer == [i \in 1..size |-> ToChar(file.bytes[i])]
      count == CopyCount(size)
      room == MEM_B - START_ADDRESS
      fits == IF count <= room THEN count ELSE room
      written == START_ADDRESS..START_ADDRESS + fits - 1
      at(a) == IF a \in written THEN StoredByte(buffer[a - START_ADDRESS + 1])
               ELSE Mem(a) IN
  /\ rom' = [called |-> TRUE, opened |-> file.opened, bytes |-> file.bytes]
  /\ IF ~file.opened
       THEN UNCHANGED <<memory, index, pc, stack, sp, delayTimer, soundTimer,
                        keypad, video, fault>>
       ELSE /\ memory' = [a \in {k \in DOMAIN memory \cup written : at(k) # 0}
                            |-> at(a)]
            /\ IF count <= room
                 THEN UNCHANGED <<index, pc, stack, sp, delayTimer, soundTimer,
                                  keypad, video, fault>>
                 ELSE /\ \E landed \in {CopyBeyond(BeyondMemory, buffer, room, count),
                                         BeyondMemory} :
                           /\ index' = landed.index
                           /\ pc' = landed.pc
                           /\ stack' = landed.stack
                           /\ sp' = landed.sp
                           /\ delayTimer' = landed.delayTimer
                           /\ soundTimer' = landed.soundTimer
                           /\ keypad' = landed.keypad
                           /\ video' = landed.video
                      /\ fault' = fault \cup {"memory_write_oob"}
  /\ UNCHANGED <<registers, opcode, randGen>>

\* ------------------------------------------------------------ Cycle()
\* Fetch (spec.md 4.2, step 1): the instruction word at memory[pc] is read
\* into opcode and pc advances by 2 before dispatch.  The word is an input:
\* any ROM may have been loaded.
Fetch(program, bound) ==
  /\ phase = "fetch"
  /\ steps < bound
  /\ faultSteps < MaxFaultSteps
  /\ \E op \in program : opcode' = op
  /\ pc' = U16(pc + 2)
  /\ fetchAddr' = pc
  /\ phase' = "execute"
  /\ UNCHANGED <<registers, memory, index, stack, sp, delayTimer, soundTimer,
                 keypad, video, randGen, fault, steps, faultSteps, calls,
                 inRange, returnTo, pre, pre2, rom>>

\* Decode (spec.md 4.2, step 2): the high nibble selects the family, the low
\* nibble or byte the operation inside families 0 and 8.
Family(op) ==
  LET hi == op \div 4096 IN
  CASE hi = 0 /\ op = 224 -> "00E0"
    [] hi = 0 /\ op = 238 -> "00EE"
    [] hi = 1 -> "1nnn"
    [] hi = 2 -> "2nnn"
    [] hi = 3 -> "3xkk"
    [] hi = 4 -> "4xkk"
    [] hi = 5 /\ op % 16 = 0 -> "5xy0"
    [] hi = 6 -> "6xkk"
    [] hi = 7 -> "7xkk"
    [] hi = 8 /\ op % 16 = 0 -> "8xy0"
    [] hi = 8 /\ op % 16 = 1 -> "8xy1"
    [] hi = 8 /\ op % 16 = 2 -> "8xy2"
    [] hi = 8 /\ op % 16 = 3 -> "8xy3"
    [] hi = 8 /\ op % 16 = 4 -> "8xy4"
    [] hi = 8 /\ op % 16 = 5 -> "8xy5"
    [] hi = 8 /\ op % 16 = 6 -> "8xy6"
    [] hi = 8 /\ op % 16 = 7 -> "8xy7"
    [] hi = 8 /\ op % 16 = 14 -> "8xyE"
    [] hi = 9 /\ op % 16 = 0 -> "9xy0"
    [] hi = 10 -> "Annn"
    [] hi = 11 -> "Bnnn"
    [] hi = 12 -> "Cxkk"
    [] hi = 13 -> "Dxyn"
    [] OTHER -> "none"

Dispatch(family) == phase = "execute" /\ Family(opcode) = family

\* The handler returns to Cycle(); the history variables take the state the
\* handler started from.
Retire ==
  /\ phase' = "fetch"
  /\ steps' = steps + 1
  /\ faultSteps' = IF fault = {} THEN 0 ELSE faultSteps + 1
  /\ pre' = Snap
  /\ pre2' = pre
  /\ UNCHANGED <<fetchAddr, rom>>

NoCall == UNCHANGED <<calls, inRange, returnTo>>

\* ------------------------------------------------------------ handlers
\* Each OP_ definition is the handler's effect on the machine; every member
\* the handler does not assign is UNCHANGED.

\* std::fill(std::begin(video), std::end(video), val)
Fill_firstRow(v, val) ==
  [c \in {k \in DOMAIN v : k >= DISPLAY_WIDTH} |-> v[c]]
Fill(v, val) ==
  IF val = 0 THEN NoCells
  ELSE [c \in 0..DISPLAY_WIDTH * DISPLAY_HEIGHT - 1 |-> val]

\* '00E0': CLS
OP_00E0 ==
  /\ video' = Fill(video, 0)
  /\ UNCHANGED <<registers, memory, index, pc, stack, sp, delayTimer,
                 soundTimer, keypad, opcode, randGen, fault>>

\* sp-- on a uint8_t.
Dec_sp(s) == U8(s + 255)

\* A uint16_t read from outside stack[]: whatever lies there.
StrayWords == {0, 514, 65535}

\* '00EE': RET
OP_00EE ==
  LET s == Dec_sp(sp) IN
  /\ sp' = s
  /\ IF s < STACK_DEPTH
       THEN pc' = stack[s] /\ UNCHANGED fault
       ELSE (\E w \in StrayWords : pc' = w) /\ fault' = fault \cup {"stack_read_oob"}
  /\ UNCHANGED <<registers, memory, index, stack, delayTimer, soundTimer,
                 keypad, video, opcode, randGen>>

\* '1nnn': JP addr
OP_1nnn ==
  LET addr == opcode % 4096 IN
  /\ pc' = addr
  /\ UNCHANGED <<registers, memory, index, stack, sp, delayTimer, soundTimer,
                 keypad, video, opcode, randGen, fault>>

\* The value stack[sp] = pc stores.
Pushed_target(p, addr) == addr
Pushed(p, addr) == p

\* The members chip8.hpp declares after stack[].
Beyond == [sp |-> sp, delayTimer |-> delayTimer, soundTimer |-> soundTimer,
           keypad |-> keypad, video |-> video]

\* stack[k] = w with k >= 16: the two bytes land on the members declared
\* after stack[].  With every member at its natural alignment and the low
\* byte first, stack[16] is sp and delayTimer, stack[17] is soundTimer and
\* keypad[0], stack[18..24] are keypad[1..14], stack[25] is keypad[15] and a
\* padding byte, stack[26 + 2j] is the low half of video[j] and
\* stack[27 + 2j] its high half.
StoreBeyondStack(k, w) ==
  LET lo == w % 256
      hi == w \div 256
      j == (k - 26) \div 2
      cell == Pixel(video, j) IN
  CASE k = 16 -> [Beyond EXCEPT !.sp = lo, !.delayTimer = hi]
    [] k = 17 -> [Beyond EXCEPT !.soundTimer = lo, !.keypad[0] = hi]
    [] k \in 18..24 ->
         [Beyond EXCEPT !.keypad[2 * (k - 18) + 1] = lo,
                        !.keypad[2 * (k - 18) + 2] = hi]
    [] k = 25 -> [Beyond EXCEPT !.keypad[15] = lo]
    [] k >= 26 /\ k % 2 = 0 ->
         [Beyond EXCEPT !.video = SetCell(video, j, Pattern32(Hi16(cell), w))]
    [] OTHER ->
         [Beyond EXCEPT !.video = SetCell(video, j, Pattern32(w, Lo16(cell)))]

\* '2nnn' with the return address stored in memory[] instead of stack[].
OP_2nnn_intoMemory ==
  LET addr == opcode % 4096 IN
  /\ memory' = SetCell(memory, sp, U8(pc))
  /\ sp' = U8(sp + 1)
  /\ pc' = addr
  /\ UNCHANGED <<registers, index, stack, delayTimer, soundTimer, keypad,
                 video, opcode, randGen, fault>>

\* '2nnn': CALL addr.  With sp >= 16 the store lands outside stack[]: either
\* on the members that follow it, as laid out above, or (another layout)
\* on nothing the machine reads.
OP_2nnn ==
  LET addr == opcode % 4096 IN
  /\ IF sp < STACK_DEPTH
       THEN /\ stack' = [stack EXCEPT ![sp] = Pushed(pc, addr)]
            /\ sp' = U8(sp + 1)
            /\ UNCHANGED <<delayTimer, soundTimer, keypad, video, fault>>
       ELSE /\ UNCHANGED stack
            /\ \E landed \in {StoreBeyondStack(sp, Pushed(pc, addr)), Beyond} :
                 /\ sp' = U8(landed.sp + 1)
                 /\ delayTimer' = landed.delayTimer
                 /\ soundTimer' = landed.soundTimer
                 /\ keypad' = landed.keypad
                 /\ video' = landed.video
            /\ fault' = fault \cup {"stack_write_oob"}
  /\ pc' = addr
  /\ UNCHANGED <<registers, memory, index, opcode, randGen>>

\* '3xkk': SE Vx, byte
OP_3xkk ==
  LET Vx == (opcode \div 256) % 16
      byte == opcode % 256 IN
  /\ pc' = IF registers[Vx] = byte THEN U16(pc + 2) ELSE pc
  /\ UNCHANGED <<registers, memory, index, stack, sp, delayTimer, soundTimer,
                 keypad, video, opcode, randGen, fault>>

\* '4xkk': SNE Vx, byte
OP_4xkk_eq ==
  LET Vx == (opcode \div 256) % 16
      byte == opcode % 256 IN
  /\ pc' = IF registers[Vx] = byte THEN U16(pc + 2) ELSE pc
  /\ UNCHANGED <<registers, memory, index, stack, sp, delayTimer, soundTimer,
                 keypad, video, opcode, randGen, fault>>
OP_4xkk ==
  LET Vx == (opcode \div 256) % 16
      byte == opcode % 256 IN
  /\ pc' = IF registers[Vx] # byte THEN U16(pc + 2) ELSE pc
  /\ UNCHANGED <<registers, memory, index, stack, sp, delayTimer, soundTimer,
                 keypad, video, opcode, randGen, fault>>

\* '5xy0': SE Vx, Vy
OP_5xy0 ==
  LET Vx == (opcode \div 256) % 16
      Vy == (opcode \div 16) % 16 IN
  /\ pc' = IF registers[Vx] = registers[Vy] THEN U16(pc + 2) ELSE pc
  /\ UNCHANGED <<registers, memory, index, stack, sp, delayTimer, soundTimer,
                 keypad, video, opcode, randGen, fault>>

\* Handlers that assign registers only.
RegistersOnly ==
  UNCHANGED <<memory, index, pc, stack, sp, delayTimer, soundTimer, keypad,
              video, opcode, randGen, fault>>

\* '6xkk': LD Vx, byte
OP_6xkk ==
  LET byte == opcode % 256
      Vx == (opcode \div 256) % 16 IN
  /\ registers' = [registers EXCEPT ![Vx] = byte]
  /\ RegistersOnly

\* registers[Vx] += byte on a uint8_t.
AddByte_saturating(a, b) == IF a + b > 255 THEN 255 ELSE a + b
AddByte(a, b) == U8(a + b)

\* '7xkk': ADD Vx, byte
OP_7xkk ==
  LET byte == opcode % 256
      Vx == (opcode \div 256) % 16 IN
  /\ registers' = [registers EXCEPT ![Vx] = AddByte(registers[Vx], byte)]
  /\ RegistersOnly

\* '8xy0': LD Vx, Vy
OP_8xy0 ==
  LET Vx == (opcode \div 256) % 16
      Vy == (opcode \div 16) % 16 IN
  /\ registers' = [registers EXCEPT ![Vx] = registers[Vy]]
  /\ RegistersOnly

\* '8xy1': OR Vx, Vy
OP_8xy1_vfReset ==
  LET Vx == (opcode \div 256) % 16
      Vy == (opcode \div 16) % 16
      r1 == [registers EXCEPT ![Vx] = BitOr(registers[Vx], registers[Vy])] IN
  /\ registers' = [r1 EXCEPT ![15] = 0]
  /\ RegistersOnly
OP_8xy1 ==
  LET Vx == (opcode \div 256) % 16
      Vy == (opcode \div 16) % 16 IN
  /\ registers' = [registers EXCEPT ![Vx] = BitOr(registers[Vx], registers[Vy])]
  /\ RegistersOnly

\* '8xy2': AND Vx, Vy
OP_8xy2 ==
  LET Vx == (opcode \div 256) % 16
      Vy == (opcode \div 16) % 16 IN
  /\ registers' = [registers EXCEPT ![Vx] = BitAnd(registers[Vx], registers[Vy])]
  /\ RegistersOnly

\* '8xy3': XOR Vx, Vy
OP_8xy3 ==
  LET Vx == (opcode \div 256) % 16
      Vy == (opcode \div 16) % 16 IN
  /\ registers' = [registers EXCEPT ![Vx] = BitXor(registers[Vx], registers[Vy])]
  /\ RegistersOnly

\* (sum > 0xFFu) stored in a uint8_t.
Carry_from255(sum) == IF sum >= 255 THEN 1 ELSE 0
Carry(sum) == IF sum > 255 THEN 1 ELSE 0

\* '8xy4': ADD Vx, Vy.  sum is read before either store; VF is stored first,
\* Vx second.
OP_8xy4 ==
  LET Vx == (opcode \div 256) % 16
      Vy == (opcode \div 16) % 16
      sum == U16(registers[Vx] + registers[Vy])
      r1 == [registers EXCEPT ![15] = Carry(sum)] IN
  /\ registers' = [r1 EXCEPT ![Vx] = sum % 256]
  /\ RegistersOnly

\* '8xy5': SUB Vx, Vy.  VF is stored first; registers[Vx] -= registers[Vy]
\* then reads both registers again.
OP_8xy5 ==
  LET Vx == (opcode \div 256) % 16
      Vy == (opcode \div 16) % 16
      r1 == [registers EXCEPT ![15] = IF registers[Vx] > registers[Vy] THEN 1 ELSE 0] IN
  /\ registers' = [r1 EXCEPT ![Vx] = U8(r1[Vx] + 256 - r1[Vy])]
  /\ RegistersOnly

\* '8xy6': SHR Vx
OP_8xy6 ==
  LET Vx == (opcode \div 256) % 16
      r1 == [registers EXCEPT ![15] = BitAnd(registers[Vx], 1)] IN
  /\ registers' = [r1 EXCEPT ![Vx] = r1[Vx] \div 2]
  /\ RegistersOnly

\* '8xy7': SUBN Vx, Vy.  VF is stored first; registers[Vy] - registers[Vx]
\* then reads both registers again.
OP_8xy7 ==
  LET Vx == (opcode \div 256) % 16
      Vy == (opcode \div 16) % 16
      r1 == [registers EXCEPT ![15] = IF registers[Vy] > registers[Vx] THEN 1 ELSE 0] IN
  /\ registers' = [r1 EXCEPT ![Vx] = U8(r1[Vy] + 256 - r1[Vx])]
  /\ RegistersOnly

\* '8xyE': SHL Vx
OP_8xyE ==
  LET Vx == (opcode \div 256) % 16
      r1 == [registers EXCEPT ![15] = BitAnd(registers[Vx], 128)] IN
  /\ registers' = [r1 EXCEPT ![Vx] = U8(r1[Vx] * 2)]
  /\ RegistersOnly

\* '9xy0': SNE Vx, Vy
OP_9xy0 ==
  LET Vx == (opcode \div 256) % 16
      Vy == (opcode \div 16) % 16 IN
  /\ pc' = IF registers[Vx] # registers[Vy] THEN U16(pc + 2) ELSE pc
  /\ UNCHANGED <<registers, memory, index, stack, sp, delayTimer, soundTimer,
                 keypad, video, opcode, randGen, fault>>

\* 'Annn': LD I, addr
OP_Annn ==
  LET nnn == opcode % 4096 IN
  /\ index' = nnn
  /\ UNCHANGED <<registers, memory, pc, stack, sp, delayTimer, soundTimer,
                 keypad, video, opcode, randGen, fault>>

\* 'Bnnn': JP V0, addr
OP_Bnnn ==
  LET nnn == opcode % 4096 IN
  /\ pc' = U16(nnn + registers[0])
  /\ UNCHANGED <<registers, memory, index, stack, sp, delayTimer, soundTimer,
                 keypad, video, opcode, randGen, fault>>

\* 'Cxkk': RND Vx, byte.  The mask is opcode & 0x000F; randByte(randGen)
\* yields a byte and advances the generator.
OP_Cxkk ==
  LET kk == opcode % 16
      Vx == (opcode \div 256) % 16 IN
  /\ registers' = [registers EXCEPT ![Vx] = BitAnd(randGen, kk)]
  /\ randGen' \in RandBytes
  /\ UNCHANGED <<memory, index, pc, stack, sp, delayTimer, soundTimer, keypad,
                 video, opcode, fault>>

\* A uint32_t read from outside video[]: whatever lies there (0, all ones,
\* or anything else).
StrayCells == {0, ALL_ONES, 1}
\* A uint8_t read from outside memory[]: whatever lies there.
StrayBytes == {0, 255}

VIDEO_CELLS == DISPLAY_WIDTH * DISPLAY_HEIGHT

\* The inner loop, for (col = 0; col < 8; col++), on one row: d is the draw
\* so far, [video, vf, fault].  The eight cells of a row are distinct, so
\* the eight iterations do not read what another one wrote.
DrawCols(d, row, spriteByte, xPos, yPos, strayCell) ==
  LET cols == {col \in 0..7 : BitAnd(spriteByte, 128 \div (2 ^ col)) # 0}
      cells == {(yPos + row) * DISPLAY_WIDTH + xPos + col : col \in cols}
      inside == {c \in cells : c < VIDEO_CELLS}
      after(c) == IF c \in inside THEN XorAllOnes(Pixel(d.video, c))
                  ELSE Pixel(d.video, c)
      collision == \/ \E c \in inside : Pixel(d.video, c) = ALL_ONES
                   \/ inside # cells /\ strayCell = ALL_ONES IN
  [video |-> [c \in {k \in DOMAIN d.video \cup inside : after(k) # 0} |-> after(c)],
   vf |-> IF collision THEN 1 ELSE d.vf,
   fault |-> IF inside # cells THEN d.fault \cup {"video_oob"} ELSE d.fault]

\* for (row = from; row < height; row++)
RECURSIVE DrawRows(_, _, _, _, _, _, _)
DrawRows(d, from, height, xPos, yPos, strayCell, strayByte) ==
  IF from >= height THEN d
  ELSE
    LET addr == index + from
        inside == addr < MEM_B
        spriteByte == IF inside THEN Mem(addr) ELSE strayByte
        d1 == IF inside THEN d
              ELSE [d EXCEPT !.fault = d.fault \cup {"memory_oob"}] IN
    DrawRows(DrawCols(d1, from, spriteByte, xPos, yPos, strayCell),
             from + 1, height, xPos, yPos, strayCell, strayByte)

\* 'Dxyn': DRW Vx, Vy, nibble
OP_Dxyn ==
  LET Vx == (opcode \div 256) % 16
      Vy == (opcode \div 16) % 16
      height == opcode % 16
      xPos == registers[Vx] % DISPLAY_WIDTH
      yPos == registers[Vy] % DISPLAY_HEIGHT
      \* the last cell the loops can address, and the last byte they read
      leavesVideo == (yPos + height - 1) * DISPLAY_WIDTH + xPos + 7 >= VIDEO_CELLS
      leavesMemory == index + height - 1 >= MEM_B IN
  \E strayCell \in (IF height > 0 /\ leavesVideo THEN StrayCells ELSE {0}),
     strayByte \in (IF height > 0 /\ leavesMemory THEN StrayBytes ELSE {0}) :
    LET d == DrawRows([video |-> video, vf |-> 0, fault |-> fault],
                      0, height, xPos, yPos, strayCell, strayByte) IN
    /\ registers' = [registers EXCEPT ![15] = d.vf]
    /\ video' = d.video
    /\ fault' = d.fault
    /\ UNCHANGED <<memory, index, pc, stack, sp, delayTimer, soundTimer,
                   keypad, opcode, randGen>>

\* ------------------------------------------------------------ Cycle(), execute
\* History of calls: a 2nnn adds the address after its instruction, a 00EE
\* removes the most recent one.
TrackCall ==
  IF inRange /\ Len(calls) < STACK_DEPTH
    THEN calls' = Append(calls, U16(fetchAddr + 2)) /\ inRange' = TRUE
         /\ UNCHANGED returnTo
    ELSE calls' = calls /\ inRange' = FALSE /\ UNCHANGED returnTo

TrackReturn ==
  IF inRange /\ Len(calls) > 0
    THEN /\ calls' = SubSeq(calls, 1, Len(calls) - 1)
         /\ returnTo' = calls[Len(calls)]
         /\ inRange' = TRUE
    ELSE calls' = calls /\ inRange' = FALSE /\ UNCHANGED returnTo

Do_00E0 == Dispatch("00E0") /\ OP_00E0 /\ Retire /\ NoCall
Do_00EE == Dispatch("00EE") /\ OP_00EE /\ Retire /\ TrackReturn
Do_1nnn == Dispatch("1nnn") /\ OP_1nnn /\ Retire /\ NoCall
Do_2nnn == Dispatch("2nnn") /\ OP_2nnn /\ Retire /\ TrackCall
Do_3xkk == Dispatch("3xkk") /\ OP_3xkk /\ Retire /\ NoCall
Do_4xkk == Dispatch("4xkk") /\ OP_4xkk /\ Retire /\ NoCall
Do_5xy0 == Dispatch("5xy0") /\ OP_5xy0 /\ Retire /\ NoCall
Do_6xkk == Dispatch("6xkk") /\ OP_6xkk /\ Retire /\ NoCall
Do_7xkk == Dispatch("7xkk") /\ OP_7xkk /\ Retire /\ NoCall
Do_8xy0 == Dispatch("8xy0") /\ OP_8xy0 /\ Retire /\ NoCall
Do_8xy1 == Dispatch("8xy1") /\ OP_8xy1 /\ Retire /\ NoCall
Do_8xy2 == Dispatch("8xy2") /\ OP_8xy2 /\ Retire /\ NoCall
Do_8xy3 == Dispatch("8xy3") /\ OP_8xy3 /\ Retire /\ NoCall
Do_8xy4 == Dispatch("8xy4") /\ OP_8xy4 /\ Retire /\ NoCall
Do_8xy5 == Dispatch("8xy5") /\ OP_8xy5 /\ Retire /\ NoCall
Do_8xy6 == Dispatch("8xy6") /\ OP_8xy6 /\ Retire /\ NoCall
Do_8xy7 == Dispatch("8xy7") /\ OP_8xy7 /\ Retire /\ NoCall
Do_8xyE == Dispatch("8xyE") /\ OP_8xyE /\ Retire /\ NoCall
Do_9xy0 == Dispatch("9xy0") /\ OP_9xy0 /\ Retire /\ NoCall
Do_Annn == Dispatch("Annn") /\ OP_Annn /\ Retire /\ NoCall
Do_Bnnn == Dispatch("Bnnn") /\ OP_Bnnn /\ Retire /\ NoCall
Do_Cxkk == Dispatch("Cxkk") /\ OP_Cxkk /\ Retire /\ NoCall
Do_Dxyn == Dispatch("Dxyn") /\ OP_Dxyn /\ Retire /\ NoCall

\* ------------------------------------------------------------ inputs
\* An instruction word from its four nibbles.
Word(a, b, c, d) == a * 4096 + b * 256 + c * 16 + d

\* Register selectors: two ordinary registers and VF.
Selectors == {0, 1, 15}

\* ---- calls and returns, from construction
StackProgram == {Word(2, 3, 0, 0), Word(0, 0, 14, 14)}

FetchStack == Fetch(StackProgram, MaxStackSteps)
NextStack == FetchStack \/ Do_2nnn \/ Do_00EE
InitStack == Chip8 /\ randGen = 0 /\ History0
SpecStack == InitStack /\ [][NextStack]_vars

\* ---- arithmetic, from register values 6xkk can load
ByteSamples == {0, 1, 5, 10, 128, 255}
Immediates == {0, 1, 251, 255}

AluProgram ==
  {Word(7, x, kk \div 16, kk % 16) : x \in Selectors, kk \in Immediates}
  \cup {Word(8, x, y, n) : x \in Selectors, y \in Selectors, n \in {4, 5, 6, 7, 14}}

\* The state construction leaves, with registers, index and video as given:
\* registers by 6xkk, index by Annn.
Reached(regs, idx) ==
  /\ registers = regs
  /\ memory = FontImage
  /\ index = idx
  /\ pc = START_ADDRESS
  /\ stack = [s \in 0..STACK_DEPTH - 1 |-> 0]
  /\ sp = 0
  /\ delayTimer = 0
  /\ soundTimer = 0
  /\ keypad = [k \in 0..N_KEYS - 1 |-> 0]
  /\ video = NoCells
  /\ opcode = 0
  /\ randGen = 0

Regs(v0, v1, vf) ==
  [r \in 0..N_REG - 1 |-> IF r = 0 THEN v0 ELSE IF r = 1 THEN v1
                          ELSE IF r = 15 THEN vf ELSE 0]

FetchAlu == Fetch(AluProgram, MaxAluSteps)
NextAlu ==
  \/ FetchAlu
  \/ Do_7xkk
  \/ Do_8xy4
  \/ Do_8xy5
  \/ Do_8xy6
  \/ Do_8xy7
  \/ Do_8xyE
InitAlu ==
  /\ \E v0 \in ByteSamples, v1 \in ByteSamples, vf \in ByteSamples :
       Reached(Regs(v0, v1, vf), 0)
  /\ History0
SpecAlu == InitAlu /\ [][NextAlu]_vars

\* ---- conditional skips, from register values 6xkk can load
SkipProgram ==
  {Word(f, x, kk \div 16, kk % 16) :
     f \in {3, 4}, x \in Selectors, kk \in Immediates}
  \cup {Word(f, x, y, 0) : f \in {5, 9}, x \in Selectors, y \in Selectors}

FetchSkip == Fetch(SkipProgram, MaxSkipSteps)
NextSkip == FetchSkip \/ Do_3xkk \/ Do_4xkk \/ Do_5xy0 \/ Do_9xy0
InitSkip ==
  /\ \E v0 \in ByteSamples, v1 \in ByteSamples, vf \in ByteSamples :
       Reached(Regs(v0, v1, vf), 0)
  /\ History0
SpecSkip == InitSkip /\ [][NextSkip]_vars

\* ---- drawing, from register values 6xkk can load and sprites Annn can name
XSamples == {0, 62, 70}
YSamples == {0, 31, 33}
FlagSamples == {0, 5}
\* glyph "0"; a zero byte followed by glyph "0"; the last two bytes of memory
SpriteAddrs == {80, 79, 4094}
DrawSelectors == {<<0, 1>>, <<15, 1>>, <<0, 15>>}
Heights == {0, 2, 5}

DrawProgram ==
  {Word(13, xy[1], xy[2], n) : xy \in DrawSelectors, n \in Heights}
  \cup {Word(0, 0, 14, 0)}

FetchDraw == Fetch(DrawProgram, MaxDrawSteps)
NextDraw == FetchDraw \/ Do_Dxyn \/ Do_00E0
InitDraw ==
  /\ \E v0 \in XSamples, v1 \in YSamples, vf \in FlagSamples, i \in SpriteAddrs :
       Reached(Regs(v0, v1, vf), i)
  /\ History0
SpecDraw == InitDraw /\ [][NextDraw]_vars

\* ---- ROM loading, from construction
\* File sizes: empty and small; the whole program region and past it.
SmallRomSizes == {0, 1, 2, 3}
LargeRomSizes == {MEM_B - START_ADDRESS, MEM_B - START_ADDRESS + 1,
                  MEM_B - START_ADDRESS + 6}
\* File contents: byte i of pattern k.
RomPatterns == {0, 1}
RomByte(k, i) == IF k = 0 THEN (i * 37 + 91) % 256 ELSE 255 - (i % 2) * 255
RomFile(size, k) ==
  [opened |-> TRUE, bytes |-> [i \in 1..size |-> RomByte(k, i)]]
RomFiles ==
  {RomFile(size, k) : size \in SmallRomSizes, k \in RomPatterns}
  \cup {RomFile(size, 1) : size \in LargeRomSizes}
  \cup {[opened |-> FALSE, bytes |-> << >>]}

\* A call of LoadROM by the host, between cycles.
Load ==
  /\ phase = "fetch"
  /\ steps < MaxLoads
  /\ \E file \in RomFiles : LoadROM(file)
  /\ steps' = steps + 1
  /\ pre' = Snap
  /\ pre2' = pre
  /\ UNCHANGED <<phase, faultSteps, fetchAddr, calls, inRange, returnTo>>

NextLoad == Load
InitLoad == Chip8 /\ randGen = 0 /\ History0
SpecLoad == InitLoad /\ [][NextLoad]_vars

\* ---- the whole instruction set, from construction
Program ==
  {Word(0, 0, 14, 0), Word(0, 0, 14, 14), Word(1, 3, 0, 0), Word(2, 3, 0, 0),
   Word(3, 0, 0, 0), Word(4, 0, 0, 0), Word(5, 0, 1, 0), Word(9, 0, 1, 0),
   Word(6, 0, 15, 15), Word(6, 1, 3, 12), Word(6, 15, 0, 7), Word(7, 0, 0, 1),
   Word(10, 0, 5, 0), Word(10, 15, 15, 14), Word(11, 15, 15, 15),
   Word(12, 0, 15, 15), Word(13, 0, 1, 5), Word(13, 1, 0, 5)}
  \cup {Word(8, 0, 1, n) : n \in {0, 1, 2, 3, 4, 5, 6, 7, 14}}

FetchAny == Fetch(Program, MaxSteps)
Next ==
  \/ FetchAny
  \/ Do_00E0 \/ Do_00EE \/ Do_1nnn \/ Do_2nnn \/ Do_3xkk \/ Do_4xkk
  \/ Do_5xy0 \/ Do_6xkk \/ Do_7xkk \/ Do_8xy0 \/ Do_8xy1 \/ Do_8xy2
  \/ Do_8xy3 \/ Do_8xy4 \/ Do_8xy5 \/ Do_8xy6 \/ Do_8xy7 \/ Do_8xyE
  \/ Do_9xy0 \/ Do_Annn \/ Do_Bnnn \/ Do_Cxkk \/ Do_Dxyn
Init == Chip8 /\ History0
Spec == Init /\ [][Next]_vars

\* ---- the whole instruction set, from registers 6xkk has loaded, with
\* VF and an ordinary register as the operand x
FlagSelectors == {0, 15}
FlagProgram ==
  {Word(0, 0, 14, 0), Word(0, 0, 14, 14), Word(1, 15, 0, 0), Word(2, 15, 0, 0),
   Word(10, 15, 0, 0), Word(11, 15, 0, 0)}
  \cup {Word(f, x, 0, 7) : f \in {3, 4, 6, 7, 12}, x \in FlagSelectors}
  \cup {Word(f, x, 1, 0) : f \in {5, 9}, x \in FlagSelectors}
  \cup {Word(8, x, 1, n) : x \in FlagSelectors, n \in {0, 1, 2, 3, 4, 5, 6, 7, 14}}
  \cup {Word(13, x, 1, 5) : x \in FlagSelectors}

FetchFlag == Fetch(FlagProgram, MaxFlagSteps)
NextFlag ==
  \/ FetchFlag
  \/ Do_00E0 \/ Do_00EE \/ Do_1nnn \/ Do_2nnn \/ Do_3xkk \/ Do_4xkk
  \/ Do_5xy0 \/ Do_6xkk \/ Do_7xkk \/ Do_8xy0 \/ Do_8xy1 \/ Do_8xy2
  \/ Do_8xy3 \/ Do_8xy4 \/ Do_8xy5 \/ Do_8xy6 \/ Do_8xy7 \/ Do_8xyE
  \/ Do_9xy0 \/ Do_Annn \/ Do_Bnnn \/ Do_Cxkk \/ Do_Dxyn
InitFlag ==
  /\ \E v0 \in {1, 255}, v1 \in {2, 128} :
       Reached(Regs(v0, v1, 7), FONSET_START_ADDRESS)
  /\ History0
SpecFlag == InitFlag /\ [][NextFlag]_vars

\* ------------------------------------------------------------ properties
\* The last handler executed was of this family: opcode still holds its
\* instruction word and pre the state it started from.
Done(family) == phase = "fetch" /\ steps > 0 /\ Family(opcode) = family
OpX == (opcode \div 256) % 16
OpY == (opcode \div 16) % 16
OpKK == opcode % 256
OpN == opcode % 16

\* C1: while the number of outstanding calls has stayed within 0..16, sp is
\* that number, stack[0..sp-1] holds the address after each outstanding
\* 2nnn (the post-fetch pc it pushed), and a 00EE leaves pc at the address
\* after the most recent unreturned 2nnn.
C1_CallReturnRoundTrip ==
  inRange =>
    /\ sp = Len(calls)
    /\ \A i \in 1..Len(calls) : stack[i - 1] = calls[i]
    /\ Done("00EE") => pc = returnTo /\ sp = pre.sp - 1
    /\ Done("2nnn") => pc = opcode % 4096 /\ sp = pre.sp + 1

\* C1, the case of spec.md: 2300 fetched at 0x200, then 00EE.
C1_Witness ==
  /\ Done("00EE") /\ inRange /\ steps = 2
  /\ pre.opcode = 238 /\ pre2.opcode = 8960 /\ pre2.pc = 514
  /\ pre.stack[0] = 514 /\ pre.sp = 1 /\ pre.pc = 770
  /\ pc = 514 /\ sp = 0

\* C2: the stack pointer stays in 0..16 and stack[] is never read or
\* written outside 0..15.
C2_StackErrorsContained ==
  /\ sp \in 0..STACK_DEPTH
  /\ fault \cap {"stack_read_oob", "stack_write_oob"} = {}

\* C3 as stated: after 8xy4, VF is the carry of Vx + Vy and Vx the sum
\* mod 256, from the values before, for every x and y (0xF included).
C3_AddCarry_AsStated ==
  Done("8xy4") =>
    LET sum == pre.registers[OpX] + pre.registers[OpY] IN
    /\ registers[15] = (IF sum > 255 THEN 1 ELSE 0)
    /\ registers[OpX] = sum % 256

\* C3 amended: after 8xy4, Vx is (Vx + Vy) mod 256 from the values before,
\* for every x and y; VF is the carry when x # 0xF, and when x = 0xF the
\* register holds the sum mod 256 (the store to Vx comes last).
C3_AddCarry ==
  Done("8xy4") =>
    LET sum == pre.registers[OpX] + pre.registers[OpY] IN
    /\ registers[OpX] = sum % 256
    /\ OpX # 15 => registers[15] = (IF sum > 255 THEN 1 ELSE 0)
    /\ \A r \in 0..N_REG - 1 : r \notin {OpX, 15} => registers[r] = pre.registers[r]

\* C3: a carry out of V0 + VF, and a sum of exactly 255 without one.
C3_Witness ==
  /\ Done("8xy4") /\ OpX = 0 /\ OpY = 15
  /\ pre.registers[0] = 128 /\ pre.registers[15] = 128
  /\ registers[0] = 0 /\ registers[15] = 1

\* C4: after 8xy5 with x # 0xF, VF = 1 iff Vx > Vy and Vx = (Vx - Vy) mod
\* 256, from the values before (y may be 0xF).
C4_Sub ==
  Done("8xy5") /\ OpX # 15 =>
    /\ registers[15] = (IF pre.registers[OpX] > pre.registers[OpY] THEN 1 ELSE 0)
    /\ registers[OpX] = (pre.registers[OpX] + 256 - pre.registers[OpY]) % 256

\* C5: after 8xy7 with x # 0xF, VF = 1 iff Vy > Vx and Vx = (Vy - Vx) mod
\* 256, from the values before (y may be 0xF); register y keeps its value
\* (read for y other than x and 0xF).
C5_SubN ==
  Done("8xy7") /\ OpX # 15 =>
    /\ registers[15] = (IF pre.registers[OpY] > pre.registers[OpX] THEN 1 ELSE 0)
    /\ registers[OpX] = (pre.registers[OpY] + 256 - pre.registers[OpX]) % 256
    /\ OpY \notin {OpX, 15} => registers[OpY] = pre.registers[OpY]

\* C6: after 7xkk, Vx = (Vx + kk) mod 256 and every other register, VF
\* included, keeps its value.
C6_AddImmediate ==
  Done("7xkk") =>
    /\ registers[OpX] = (pre.registers[OpX] + OpKK) % 256
    /\ \A r \in 0..N_REG - 1 : r # OpX => registers[r] = pre.registers[r]

\* C6: an addition that wraps, with VF holding 5 before and after.
C6_Witness ==
  /\ Done("7xkk") /\ OpX = 0 /\ OpKK = 251
  /\ pre.registers[0] = 10 /\ registers[0] = 5
  /\ pre.registers[15] = 5 /\ registers[15] = 5

\* C7: for x # 0xF, after 8xy6 VF is bit 0 of Vx and Vx is halved; after
\* 8xyE VF is bit 7 of Vx, as 0 or 1, and Vx is doubled mod 256.
C7_ShiftFlags ==
  /\ Done("8xy6") /\ OpX # 15 =>
       /\ registers[15] = pre.registers[OpX] % 2
       /\ registers[OpX] = pre.registers[OpX] \div 2
  /\ Done("8xyE") /\ OpX # 15 =>
       /\ registers[15] = pre.registers[OpX] \div 128
       /\ registers[OpX] = (pre.registers[OpX] * 2) % 256

\* ---- drawing
\* The (row, col) of the sprite bits that are set (on = TRUE) or clear, for
\* the Dxyn word op started from state s; rows are read from memory[].
SpriteBits(s, op, on) ==
  {rc \in (0..(op % 16) - 1) \X (0..7) :
     LET a == s.index + rc[1]
         byte == IF a \in DOMAIN s.memory THEN s.memory[a] ELSE 0 IN
     ((byte \div (2 ^ (7 - rc[2]))) % 2 = 1) = on}

OriginX(s, op) == s.registers[(op \div 256) % 16] % DISPLAY_WIDTH
OriginY(s, op) == s.registers[(op \div 16) % 16] % DISPLAY_HEIGHT

\* The pixel spec.md gives sprite bit (row, col): both coordinates wrap.
WrapCell(s, op, rc) ==
  ((OriginY(s, op) + rc[1]) % DISPLAY_HEIGHT) * DISPLAY_WIDTH
    + ((OriginX(s, op) + rc[2]) % DISPLAY_WIDTH)

\* The cell the handler's index expression gives sprite bit (row, col).
LinearCell(s, op, rc) ==
  (OriginY(s, op) + rc[1]) * DISPLAY_WIDTH + OriginX(s, op) + rc[2]

SpriteInMemory(s, op) == s.index + (op % 16) <= MEM_B

\* C8, read in the claim's favour (x and y other than 0xF, so that the
\* second draw has the origin of the first; the pixels a set bit targets
\* are those the handler addresses inside the framebuffer): after the same
\* Dxyn twice in a row every pixel has the value it had before the first
\* draw, and VF = 1 iff a targeted pixel was on after the first draw.
C8_DoubleDraw ==
  ( /\ Done("Dxyn") /\ steps >= 2
    /\ pre.opcode = opcode /\ pre2.opcode = opcode
    /\ OpX # 15 /\ OpY # 15
    /\ pre.index = pre2.index /\ pre.memory = pre2.memory
    /\ SpriteInMemory(pre, opcode) )
  =>
    LET targets == {LinearCell(pre, opcode, rc) : rc \in SpriteBits(pre, opcode, TRUE)}
                     \cap (0..VIDEO_CELLS - 1) IN
    /\ \A c \in DOMAIN video \cup DOMAIN pre2.video :
         Pixel(video, c) = Pixel(pre2.video, c)
    /\ registers[15] = (IF \E c \in targets : Pixel(pre.video, c) = ALL_ONES
                          THEN 1 ELSE 0)

\* C9: after Dxyn the pixels toggled are exactly those at column
\* (Vx mod 64 + c) mod 64, row (Vy mod 32 + r) mod 32 for the set sprite
\* bits (r, c), and nothing outside the framebuffer is touched.
C9_Wraparound ==
  Done("Dxyn") /\ SpriteInMemory(pre, opcode) =>
    LET targets == {WrapCell(pre, opcode, rc) : rc \in SpriteBits(pre, opcode, TRUE)} IN
    /\ "video_oob" \notin fault
    /\ \A c \in DOMAIN video \cup DOMAIN pre.video \cup targets :
         Pixel(video, c) = (IF c \in targets THEN XorAllOnes(Pixel(pre.video, c))
                            ELSE Pixel(pre.video, c))

\* C10: after Dxyn, VF = 1 iff a set sprite bit targeted a pixel that was
\* on before the draw, whatever VF held, and the pixels clear sprite bits
\* target are unchanged.  The pixel a bit targets is the one spec.md gives
\* it (C9).
C10_CollisionFlag ==
  Done("Dxyn") /\ SpriteInMemory(pre, opcode) =>
    LET targets == {WrapCell(pre, opcode, rc) : rc \in SpriteBits(pre, opcode, TRUE)}
        clear == {WrapCell(pre, opcode, rc) : rc \in SpriteBits(pre, opcode, FALSE)} IN
    /\ registers[15] = (IF \E c \in targets : Pixel(pre.video, c) = ALL_ONES
                          THEN 1 ELSE 0)
    /\ \A c \in clear : Pixel(video, c) = Pixel(pre.video, c)

\* ---- the framebuffer
\* C11: in every state reached from construction by any sequence of
\* opcodes, every framebuffer pixel holds 0x00000000 or 0xFFFFFFFF.
C11_PixelValues ==
  \A c \in DOMAIN video : video[c] \in {0, ALL_ONES}

\* C12: after 00E0 every pixel is off and registers, pc, index, stack, sp
\* and memory have the values they had before.
C12_Clear ==
  Done("00E0") =>
    /\ \A c \in 0..VIDEO_CELLS - 1 : Pixel(video, c) = 0
    /\ registers = pre.registers
    /\ pc = pre.pc
    /\ index = pre.index
    /\ stack = pre.stack
    /\ sp = pre.sp
    /\ memory = pre.memory

\* C12: a 00E0 that followed a draw which lit pixels below the first row.
C12_Witness ==
  /\ Done("00E0") /\ fault = {}
  /\ \E c \in DOMAIN pre.video : c >= DISPLAY_WIDTH /\ pre.video[c] = ALL_ONES
  /\ video = NoCells /\ registers = pre.registers

\* ---- ROM loading
\* The last operation was a LoadROM of a file that opened.
Loaded == rom.called /\ rom.opened /\ steps > 0

\* C13: after LoadROM of S <= 4096 - 0x200 bytes, memory[0x200 + i] is byte
\* i of the file for every i in 0..S-1 and every other byte of memory has
\* the value it had before the load.
C13_LoadRoundTrip ==
  Loaded /\ Len(rom.bytes) <= MEM_B - START_ADDRESS =>
    \A a \in 0..MEM_B - 1 :
      Mem(a) = (IF a \in START_ADDRESS..START_ADDRESS + Len(rom.bytes) - 1
                  THEN rom.bytes[a - START_ADDRESS + 1]
                  ELSE IF a \in DOMAIN pre.memory THEN pre.memory[a] ELSE 0)

\* C13: a 3-byte file with bytes above 0x7F loaded over a file that filled
\* the program region: the font and the earlier file's bytes past the third
\* are kept.
C13_Witness ==
  /\ Loaded /\ steps = 2 /\ fault = {}
  /\ rom.bytes = <<128, 165, 202>>
  /\ Mem(START_ADDRESS) = 128 /\ Mem(START_ADDRESS + 2) = 202
  /\ Mem(START_ADDRESS + 3) = 255 /\ Mem(MEM_B - 1) = 255
  /\ Mem(FONSET_START_ADDRESS) = 240

\* C14: a load of more than 4096 - 0x200 bytes writes nothing at an
\* address above 0xFFF.
C14_OversizeRejected ==
  Loaded /\ Len(rom.bytes) > MEM_B - START_ADDRESS =>
    "memory_write_oob" \notin fault

\* ---- the instruction set
\* C15: after Cxkk, Vx is the byte the generator produced ANDed with kk,
\* the whole low byte of the opcode, and no other register changes.
C15_RandomMask ==
  Done("Cxkk") =>
    /\ registers[OpX] = BitAnd(pre.randGen, OpKK)
    /\ \A r \in 0..N_REG - 1 : r # OpX => registers[r] = pre.registers[r]

\* C16: pc and index are at most 0xFFF in every state (read for the states
\* a handler leaves, reached without undefined behaviour).
C16_TwelveBitAddresses ==
  fault = {} /\ phase = "fetch" => pc <= 4095 /\ index <= 4095

\* The condition under which the skip of the last handler is taken.
SkipTaken ==
  CASE Family(opcode) = "3xkk" -> pre.registers[OpX] = OpKK
    [] Family(opcode) = "4xkk" -> pre.registers[OpX] # OpKK
    [] Family(opcode) = "5xy0" -> pre.registers[OpX] = pre.registers[OpY]
    [] Family(opcode) = "9xy0" -> pre.registers[OpX] # pre.registers[OpY]
    [] OTHER -> FALSE

C18_InitialState ==
  steps = 0 /\ phase = "fetch" =>
    /\ pc = 512
    /\ \A r \in 0..15 : registers[r] = 0
    /\ index = 0
    /\ sp = 0
    /\ \A e \in 0..15 : stack[e] = 0
    /\ delayTimer = 0 /\ soundTimer = 0
    /\ \A k \in 0..15 : keypad[k] = 0
    /\ \A c \in 0..2047 : Pixel(video, c) = 0
    /\ \A g \in 0..15, r \in 0..4 : Mem(80 + 5 * g + r) = fontset[5 * g + r + 1]
    /\ \A a \in 0..4095 : a \notin 80..159 => Mem(a) = 0

\* C18: the constructed machine, with the first byte of glyphs 0 and 1 and
\* the last byte of glyph F in place.
C18_Witness ==
  /\ steps = 0 /\ phase = "fetch" /\ pc = START_ADDRESS
  /\ Mem(80) = 240 /\ Mem(85) = 32 /\ Mem(159) = 128
  /\ Mem(79) = 0 /\ Mem(160) = 0

\* C19: after any sequence of opcodes both timers and the 16 key states
\* hold what was last set from outside the core (nothing sets them after
\* construction, so 0).
C19_TimersUntouched ==
  /\ delayTimer = 0
  /\ soundTimer = 0
  /\ \A k \in 0..N_KEYS - 1 : keypad[k] = 0

FlagWriters == {"8xy4", "8xy5", "8xy6", "8xy7", "8xyE", "Dxyn"}
RegisterWriters == {"6xkk", "7xkk", "8xy0", "8xy1", "8xy2", "8xy3", "Cxkk"}

\* C20: an opcode other than 8xy4, 8xy5, 8xy6, 8xy7, 8xyE and Dxyn leaves
\* VF unchanged unless it is one of 6xkk, 7xkk, 8xy0..8xy3, Cxkk with
\* x = 0xF; every opcode leaves the registers other than Vx and VF
\* unchanged.
C20_FlagIsOrdinary ==
  phase = "fetch" /\ steps > 0 =>
    /\ ( /\ Family(opcode) \notin FlagWriters
         /\ ~(Family(opcode) \in RegisterWriters /\ OpX = 15) )
       => registers[15] = pre.registers[15]
    /\ \A r \in 0..N_REG - 1 :
         r \notin {OpX, 15} => registers[r] = pre.registers[r]

\* C20: VF holds 7 across an 8xy1 that writes V0.
C20_Witness ==
  /\ Done("8xy1") /\ OpX = 0
  /\ pre.registers[15] = 7 /\ registers[15] = 7
  /\ pre.registers[0] = 1 /\ registers[0] = 3

\* ---- a loaded ROM, run from construction
\* The files: every two-instruction program over these words, and a file
\* that does not open.
RunProgram == FlagProgram \cup {Word(1, 2, 0, 0)}
RunFiles ==
  {[opened |-> TRUE,
    bytes |-> <<w1 \div 256, w1 % 256, w2 \div 256, w2 % 256>>] :
     w1 \in RunProgram, w2 \in RunProgram}
  \cup {[opened |-> FALSE, bytes |-> << >>]}

\* The host loads the ROM once, before the first cycle.
Boot ==
  /\ phase = "fetch"
  /\ steps = 0
  /\ ~rom.called
  /\ \E file \in RunFiles : LoadROM(file)
  /\ pre' = Snap
  /\ pre2' = pre
  /\ UNCHANGED <<phase, steps, faultSteps, fetchAddr, calls, inRange, returnTo>>

\* The instruction word at memory[pc], memory[pc + 1], high byte first; past
\* the end of memory[] the bytes are whatever lies there.
WordAt(a) ==
  {hi * 256 + lo :
     hi \in (IF a < MEM_B THEN {Mem(a)} ELSE StrayBytes),
     lo \in (IF a + 1 < MEM_B THEN {Mem(a + 1)} ELSE StrayBytes)}

FetchRun == rom.called /\ Fetch(WordAt(pc), MaxRunSteps)
NextRun ==
  \/ Boot
  \/ FetchRun
  \/ Do_00E0 \/ Do_00EE \/ Do_1nnn \/ Do_2nnn \/ Do_3xkk \/ Do_4xkk
  \/ Do_5xy0 \/ Do_6xkk \/ Do_7xkk \/ Do_8xy0 \/ Do_8xy1 \/ Do_8xy2
  \/ Do_8xy3 \/ Do_8xy4 \/ Do_8xy5 \/ Do_8xy6 \/ Do_8xy7 \/ Do_8xyE
  \/ Do_9xy0 \/ Do_Annn \/ Do_Bnnn \/ Do_Cxkk \/ Do_Dxyn
SpecRun == InitLoad /\ [][NextRun]_vars

\* The memory construction and a load of these bytes leave: the font at
\* 0x50..0x9F, the bytes from 0x200 on, 0 elsewhere.
ImageByte(bytes, a) ==
  IF a \in 80..159 THEN fontset[a - 79]
  ELSE IF a \in 512..511 + Len(bytes) THEN bytes[a - 511]
  ELSE 0

\* C21: once the ROM is loaded, every one of the 4096 memory bytes keeps
\* the value construction and the load gave it, whatever handlers run.
C21_MemoryReadOnly ==
  rom.called =>
    \A a \in 0..MEM_B - 1 : Mem(a) = ImageByte(rom.bytes, a)

\* C21: both instructions of the loaded ROM 6F07 DF15 have run, a register
\* load and a draw of the font's first glyph.
C21_Witness ==
  /\ rom.called /\ rom.opened /\ steps = 2 /\ phase = "fetch"
  /\ rom.bytes = <<111, 7, 223, 21>>
  /\ Done("Dxyn") /\ pre.opcode = Word(13, 15, 1, 5)
  /\ Mem(START_ADDRESS) = 111 /\ Mem(START_ADDRESS + 3) = 21
  /\ Mem(FONSET_START_ADDRESS) = 240

\* C22: Dxyn reads sprite bytes only at memory addresses in 0..4095 and
\* reads and writes framebuffer cells only at indices in 0..2047.
C22_DrawInBounds ==
  Done("Dxyn") => fault \cap {"memory_oob", "video_oob"} = {}
=============================================================================
